---- MODULE Spec2Model ----
(***************************************************************************)
(* MRIMate decoding pipeline: MRImateExperiment (src/src/mrimate/mrimate.py)*)
(* and the header model MRIExperiment_Philips (src/src/mrimate/models.py).  *)
(*                                                                         *)
(* An array is a record [shape, flat]: its numpy shape and its elements in  *)
(* C (row-major) order.  Raw pixels are integers.  A floating-point value   *)
(* is held exactly as the record [n, d, p], meaning (n / d) * pi^p.         *)
(***************************************************************************)
EXTENDS Integers, Sequences, FiniteSets, TLC

VARIABLES
    par,            \* content of the PAR file: the header Parread hands back
    rec,            \* content of the REC file: the 3-D array Recread hands back
    parameters,     \* self.parameters
    data,           \* self.data
    spin_density,   \* self.spin_density
    phase,          \* self.phase
    velocity,       \* self.velocity
    data_loaded,    \* self.data_loaded
    pc,             \* position inside load(): "idle" when no call is running
    result,         \* outcome of the most recent call: [op, err, ret]
    code,           \* input of the phase-decode specification
    decoded         \* output of the phase-decode specification

vars == <<par, rec, parameters, data, spin_density, phase, velocity,
          data_loaded, pc, result, code, decoded>>

exp_vars == <<par, rec, parameters, data, spin_density, phase, velocity,
              data_loaded, pc, result>>

(***************************************************************************)
(* Bounds of the model.                                                    *)
(***************************************************************************)
MaxRows == 2
MaxCols == 2
MaxImages == 4
MaxCells == 4
MaxEchoes == 3
MaxSlices == 2
MaxDynamics == 2

\* pixel codes stored in the REC file: zero padding, mid-scale, top of scale
PixelValues == {0, 2048, 4095}

\* encoding-velocity vectors of the PAR file (integer Euclidean norms)
EncodingVelocities == {<<0, 0, 0>>, <<5, 0, 0>>, <<0, -3, 4>>}

(***************************************************************************)
(* Python's None, and exact arithmetic on floating-point values.           *)
(***************************************************************************)
None == [none |-> TRUE]

RECURSIVE GCD(_, _)
GCD(a, b) == IF b = 0 THEN a ELSE GCD(b, a % b)

Abs(x) == IF x < 0 THEN -x ELSE x

\* (n / d) * pi^p in lowest terms, d > 0; zero is [0, 1, 0]
Real(n, d, p) ==
    IF n = 0 THEN [n |-> 0, d |-> 1, p |-> 0]
    ELSE LET s == IF d < 0 THEN -1 ELSE 1
             g == GCD(Abs(n), Abs(d))
         IN [n |-> (s * n) \div g, d |-> (s * d) \div g, p |-> p]

Float(i) == Real(i, 1, 0)
np_pi == Real(1, 1, 1)

FSub(a, b) == Real(a.n * b.d - b.n * a.d, a.d * b.d, IF a.n = 0 THEN b.p ELSE a.p)
FMul(a, b) == Real(a.n * b.n, a.d * b.d, a.p + b.p)
FDiv(a, b) == Real(a.n * b.d, a.d * b.n, a.p - b.p)
\* a < b for values with the same power of pi
FLess(a, b) == a.n * b.d < b.n * a.d

ISqrt(n) == CHOOSE r \in 0..n : r * r <= n /\ (r + 1) * (r + 1) > n

(***************************************************************************)
(* numpy arrays.                                                           *)
(***************************************************************************)
RECURSIVE Product(_)
Product(s) == IF s = <<>> THEN 1 ELSE Head(s) * Product(Tail(s))

Size(a) == Len(a.flat)

\* element (r, c, n), 0-based, of a 3-D array
At3(a, r, c, n) == a.flat[(r * a.shape[2] + c) * a.shape[3] + n + 1]

\* element (r, c, s, f), 0-based, of a 4-D array
At4(a, r, c, s, f) ==
    a.flat[((r * a.shape[2] + c) * a.shape[3] + s) * a.shape[4] + f + 1]

SetMin(S) == CHOOSE x \in S : \A y \in S : x <= y
SetMax(S) == CHOOSE x \in S : \A y \in S : x >= y

\* np.nonzero(a) of a 3-D array, as the set of index triples
np_nonzero(a) ==
    {i \in (0..(a.shape[1] - 1)) \X (0..(a.shape[2] - 1)) \X (0..(a.shape[3] - 1)) :
        At3(a, i[1], i[2], i[3]) # 0}

\* np.min(non_zero_indices, axis=1) and np.max(non_zero_indices, axis=1)
min_index(nz) == [k \in 1..3 |-> SetMin({i[k] : i \in nz})]
max_index(nz) == [k \in 1..3 |-> SetMax({i[k] : i \in nz})]

\* a[lo[1]:hi[1]+1, lo[2]:hi[2]+1, lo[3]:hi[3]+1] of a 3-D array
Slice3(a, lo, hi) ==
    LET sh == <<hi[1] - lo[1] + 1, hi[2] - lo[2] + 1, hi[3] - lo[3] + 1>>
    IN [shape |-> sh,
        flat  |-> [k \in 1..Product(sh) |->
                     LET n == (k - 1) % sh[3]
                         c == ((k - 1) \div sh[3]) % sh[2]
                         r == (k - 1) \div (sh[3] * sh[2])
                     IN At3(a, lo[1] + r, lo[2] + c, lo[3] + n)]]

\* a[:, :, :, start::2] of a 4-D array
FrameSlice(a, start) ==
    LET F  == a.shape[4]
        Fo == IF F > start THEN (F - start + 1) \div 2 ELSE 0
        sh == <<a.shape[1], a.shape[2], a.shape[3], Fo>>
    IN [shape |-> sh,
        flat  |-> [k \in 1..Product(sh) |->
                     a.flat[((k - 1) \div Fo) * F + start + 2 * ((k - 1) % Fo) + 1]]]

\* np.reshape(a, target) succeeds iff the sizes agree
CanReshape(a, target) == Product(target) = Size(a)
np_reshape(a, target) == [shape |-> target, flat |-> a.flat]

\* element-wise map
Map(a, Op(_)) == [shape |-> a.shape, flat |-> [k \in 1..Size(a) |-> Op(a.flat[k])]]

(***************************************************************************)
(* models.py: MRIExperiment_Philips.                                       *)
(***************************************************************************)
\* variant: only the first axis is looked at
is_flow_encoded_first_axis(p) == p.PhaseEncodingVelocity[1] # 0

is_flow_encoded(p) == p.PhaseEncodingVelocity # <<0, 0, 0>>

NumberOfSlices(p) == p.MaxNumberOfSlicesLocations

NumberOfDynamics(p) == p.MaxNumberOfDynamics

\* variant: the components are summed instead of taking the norm
MaxEncodedVelocity_sum(p) ==
    LET v == p.PhaseEncodingVelocity
    IN Float(v[1] + v[2] + v[3])

MaxEncodedVelocity(p) ==
    LET v == p.PhaseEncodingVelocity
    IN Float(ISqrt(v[1] * v[1] + v[2] * v[2] + v[3] * v[3]))

(***************************************************************************)
(* Inputs: the files of one acquisition.                                   *)
(***************************************************************************)
Headers ==
    [PhaseEncodingVelocity      : EncodingVelocities,
     MaxNumberOfEchoes          : 1..MaxEchoes,
     MaxNumberOfSlicesLocations : 1..MaxSlices,
     MaxNumberOfDynamics        : 1..MaxDynamics]

Shapes ==
    {s \in (1..MaxRows) \X (1..MaxCols) \X (1..MaxImages) : Product(s) <= MaxCells}

RawArrays ==
    UNION {[shape : {s}, flat : [1..Product(s) -> PixelValues]] : s \in Shapes}

(***************************************************************************)
(* Errors raised by the code (all are ValueError; the message tells them   *)
(* apart).                                                                 *)
(***************************************************************************)
NoError == "no error"
Running == "running"
EmptyVolumeError ==
    "ValueError: zero-size array to reduction operation minimum which has no identity"
ShapeMismatchError == "ValueError: cannot reshape array"
NotLoadedError == "ValueError: Data not loaded. Call 'load()' method first."
PhaseUnavailableError ==
    "ValueError: Phase data is not available. Ensure velocity encoding is present."
VelocityUnavailableError ==
    "ValueError: Velocity data is not available. Call calculate_velocity() first."
SpinDensityUnavailableError ==
    "ValueError: Spin density is not available. Ensure data is loaded and processed."
NoneTypeError == "TypeError: unsupported operand type(s) for *: 'NoneType' and 'float'"

Outcome(op, err, ret) == [op |-> op, err |-> err, ret |-> ret]

(***************************************************************************)
(* MRImateExperiment.__init__                                              *)
(***************************************************************************)
InitExperiment ==
    /\ parameters = None
    /\ data = None
    /\ spin_density = None
    /\ phase = None
    /\ velocity = None
    /\ data_loaded = FALSE
    /\ pc = "idle"
    /\ result = Outcome("__init__", NoError, None)

Init ==
    /\ par \in Headers
    /\ rec \in RawArrays
    /\ InitExperiment
    /\ code = 0
    /\ decoded = None

(***************************************************************************)
(* mrimate.py: MRImateExperiment.removing_unwanted_zeros                   *)
(***************************************************************************)
\* np.min of an empty index list raises
CanBound(a) == np_nonzero(a) # {}

\* variant: the upper bounds are taken exclusive
cropped_data_exclusive(a) ==
    LET hi == max_index(np_nonzero(a))
    IN Slice3(a, min_index(np_nonzero(a)), [k \in 1..3 |-> hi[k] - 1])

cropped_data(a) == Slice3(a, min_index(np_nonzero(a)), max_index(np_nonzero(a)))

\* variant: an empty index list yields an empty crop instead of raising
removing_unwanted_zeros_silent ==
    /\ pc = "crop"
    /\ spin_density' = IF CanBound(data) THEN cropped_data(data)
                       ELSE [shape |-> <<0, 0, 0>>, flat |-> <<>>]
    /\ pc' = "resize"
    /\ UNCHANGED <<par, rec, parameters, data, phase, velocity, data_loaded,
                   result, code, decoded>>

removing_unwanted_zeros ==
    /\ pc = "crop"
    /\ IF CanBound(data)
       THEN /\ spin_density' = cropped_data(data)
            /\ pc' = "resize"
            /\ UNCHANGED result
       ELSE /\ pc' = "idle"
            /\ result' = Outcome("load", EmptyVolumeError, None)
            /\ UNCHANGED spin_density
    /\ UNCHANGED <<par, rec, parameters, data, phase, velocity, data_loaded,
                   code, decoded>>

(***************************************************************************)
(* mrimate.py: MRImateExperiment.resize_data                               *)
(***************************************************************************)
FullScale == 4096

\* variant: the echo count is tested before the flow flag
FrameCount_echo_first(p) ==
    IF p.MaxNumberOfEchoes > 1 THEN p.MaxNumberOfEchoes
    ELSE IF is_flow_encoded(p) THEN NumberOfDynamics(p) * 2
    ELSE NumberOfDynamics(p)

\* last entry of target_shape, by branch
FrameCount(p) ==
    IF is_flow_encoded(p) THEN NumberOfDynamics(p) * 2
    ELSE IF p.MaxNumberOfEchoes > 1 THEN p.MaxNumberOfEchoes
    ELSE NumberOfDynamics(p)

target_shape(a, p) == <<a.shape[1], a.shape[2], NumberOfSlices(p), FrameCount(p)>>

\* variant: the magnitude is taken from the odd frames
MagnitudeFrames_odd(a) == FrameSlice(a, 1)

\* self.data[:, :, :, 0::2]
MagnitudeFrames(a) == FrameSlice(a, 0)

\* self.data[:, :, :, 1::2]
phase_integer(a) == FrameSlice(a, 1)

\* variant: the half scale is taken one code short
PhaseDecode_short_scale(c) ==
    LET half == Real(FullScale - 1, 2, 0)
    IN FMul(FDiv(FSub(Float(c), half), half), np_pi)

\* (phase_integer - 4096/2) / (4096/2) * np.pi, for one element
PhaseDecode(c) ==
    LET half == Real(FullScale, 2, 0)
    IN FMul(FDiv(FSub(Float(c), half), half), np_pi)

resize_data ==
    /\ pc = "resize"
    /\ IF CanReshape(data, target_shape(data, parameters))
       THEN LET reshaped == np_reshape(data, target_shape(data, parameters))
            IN /\ data' = reshaped
               /\ IF is_flow_encoded(parameters)
                  THEN /\ spin_density' = MagnitudeFrames(reshaped)
                       /\ phase' = Map(phase_integer(reshaped), PhaseDecode)
                  ELSE /\ spin_density' = reshaped
                       /\ UNCHANGED phase
               /\ pc' = "finish"
               /\ UNCHANGED result
       ELSE /\ pc' = "idle"
            /\ result' = Outcome("load", ShapeMismatchError, None)
            /\ UNCHANGED <<data, spin_density, phase>>
    /\ UNCHANGED <<par, rec, parameters, velocity, data_loaded, code, decoded>>

(***************************************************************************)
(* mrimate.py: MRImateExperiment.load                                      *)
(***************************************************************************)
\* lines 72-73: parse the PAR file, read the REC file
load ==
    /\ pc = "idle"
    /\ parameters' = par
    /\ data' = rec
    /\ pc' = "crop"
    /\ result' = Outcome("load", Running, None)
    /\ UNCHANGED <<par, rec, spin_density, phase, velocity, data_loaded,
                   code, decoded>>

\* line 77
load_done ==
    /\ pc = "finish"
    /\ data_loaded' = TRUE
    /\ pc' = "idle"
    /\ result' = Outcome("load", NoError, None)
    /\ UNCHANGED <<par, rec, parameters, data, spin_density, phase, velocity,
                   code, decoded>>

(***************************************************************************)
(* mrimate.py: describe, display_parameters and the plotting methods       *)
(***************************************************************************)
\* plot_2d_slider has no zmin / zmax parameters, so the call always raises
PlotKeywordError ==
    "TypeError: plot_2d_slider() got an unexpected keyword argument 'zmin'"

describe ==
    /\ pc = "idle"
    /\ result' = IF ~data_loaded
                 THEN Outcome("describe", NotLoadedError, None)
                 ELSE Outcome("describe", NoError, None)
    /\ UNCHANGED <<par, rec, parameters, data, spin_density, phase, velocity,
                   data_loaded, pc, code, decoded>>

display_parameters ==
    /\ pc = "idle"
    /\ result' = IF ~data_loaded
                 THEN Outcome("display_parameters", NotLoadedError, None)
                 ELSE Outcome("display_parameters", NoError, None)
    /\ UNCHANGED <<par, rec, parameters, data, spin_density, phase, velocity,
                   data_loaded, pc, code, decoded>>

plot_proton_density ==
    /\ pc = "idle"
    /\ result' = IF ~data_loaded
                 THEN Outcome("plot_proton_density", NotLoadedError, None)
                 ELSE Outcome("plot_proton_density", PlotKeywordError, None)
    /\ UNCHANGED <<par, rec, parameters, data, spin_density, phase, velocity,
                   data_loaded, pc, code, decoded>>

plot_velocity ==
    /\ pc = "idle"
    /\ result' = IF ~data_loaded
                 THEN Outcome("plot_velocity", NotLoadedError, None)
                 ELSE Outcome("plot_velocity", PlotKeywordError, None)
    /\ UNCHANGED <<par, rec, parameters, data, spin_density, phase, velocity,
                   data_loaded, pc, code, decoded>>

(***************************************************************************)
(* mrimate.py: accessors and calculate_velocity                            *)
(***************************************************************************)
\* variant: the data_loaded guard is left out
get_spin_density_unguarded ==
    /\ pc = "idle"
    /\ result' = IF spin_density = None
                 THEN Outcome("get_spin_density", SpinDensityUnavailableError, None)
                 ELSE Outcome("get_spin_density", NoError, spin_density)
    /\ UNCHANGED <<par, rec, parameters, data, spin_density, phase, velocity,
                   data_loaded, pc, code, decoded>>

get_spin_density ==
    /\ pc = "idle"
    /\ result' = IF ~data_loaded
                 THEN Outcome("get_spin_density", NotLoadedError, None)
                 ELSE IF spin_density = None
                 THEN Outcome("get_spin_density", SpinDensityUnavailableError, None)
                 ELSE Outcome("get_spin_density", NoError, spin_density)
    /\ UNCHANGED <<par, rec, parameters, data, spin_density, phase, velocity,
                   data_loaded, pc, code, decoded>>

get_phase ==
    /\ pc = "idle"
    /\ result' = IF ~data_loaded
                 THEN Outcome("get_phase", NotLoadedError, None)
                 ELSE IF phase = None
                 THEN Outcome("get_phase", PhaseUnavailableError, None)
                 ELSE Outcome("get_phase", NoError, phase)
    /\ UNCHANGED <<par, rec, parameters, data, spin_density, phase, velocity,
                   data_loaded, pc, code, decoded>>

\* variant: the velocity test comes before the phase test
get_velocity_velocity_first ==
    /\ pc = "idle"
    /\ result' = IF ~data_loaded
                 THEN Outcome("get_velocity", NotLoadedError, None)
                 ELSE IF velocity = None
                 THEN Outcome("get_velocity", VelocityUnavailableError, None)
                 ELSE IF phase = None
                 THEN Outcome("get_velocity", PhaseUnavailableError, None)
                 ELSE Outcome("get_velocity", NoError, velocity)
    /\ UNCHANGED <<par, rec, parameters, data, spin_density, phase, velocity,
                   data_loaded, pc, code, decoded>>

get_velocity ==
    /\ pc = "idle"
    /\ result' = IF ~data_loaded
                 THEN Outcome("get_velocity", NotLoadedError, None)
                 ELSE IF phase = None
                 THEN Outcome("get_velocity", PhaseUnavailableError, None)
                 ELSE IF velocity = None
                 THEN Outcome("get_velocity", VelocityUnavailableError, None)
                 ELSE Outcome("get_velocity", NoError, velocity)
    /\ UNCHANGED <<par, rec, parameters, data, spin_density, phase, velocity,
                   data_loaded, pc, code, decoded>>

\* self.phase * self.parameters.MaxEncodedVelocity / np.pi, for one element
VelocityOf(ph, V) == FDiv(FMul(ph, V), np_pi)

\* variant: the flow test is left out
TakesFlowBranch_always(p) == TRUE

\* the branch of calculate_velocity that computes
TakesFlowBranch(p) == is_flow_encoded(p)

calculate_velocity ==
    /\ pc = "idle"
    /\ IF ~data_loaded
       THEN /\ result' = Outcome("calculate_velocity", NotLoadedError, None)
            /\ UNCHANGED velocity
       ELSE IF TakesFlowBranch(parameters)
       THEN IF phase = None
            THEN /\ result' = Outcome("calculate_velocity", NoneTypeError, None)
                 /\ UNCHANGED velocity
            ELSE /\ velocity' =
                       LET V == MaxEncodedVelocity(parameters)
                           Scale(ph) == VelocityOf(ph, V)
                       IN Map(phase, Scale)
                 /\ result' = Outcome("calculate_velocity", NoError, None)
       ELSE /\ result' = Outcome("calculate_velocity", PhaseUnavailableError, None)
            /\ UNCHANGED velocity
    /\ UNCHANGED <<par, rec, parameters, data, spin_density, phase,
                   data_loaded, pc, code, decoded>>

(***************************************************************************)
(* The experiment: one instance, one acquisition on disk, any sequence of  *)
(* calls.                                                                  *)
(***************************************************************************)
Next ==
    \/ load
    \/ removing_unwanted_zeros
    \/ resize_data
    \/ load_done
    \/ get_spin_density
    \/ get_phase
    \/ get_velocity
    \/ calculate_velocity
    \/ describe
    \/ display_parameters
    \/ plot_proton_density
    \/ plot_velocity

Spec == Init /\ [][Next]_vars

(***************************************************************************)
(* The phase decode alone, over the whole 12-bit code space.               *)
(***************************************************************************)
InitDecode ==
    /\ par = [PhaseEncodingVelocity |-> <<0, 0, 0>>, MaxNumberOfEchoes |-> 1,
              MaxNumberOfSlicesLocations |-> 1, MaxNumberOfDynamics |-> 1]
    /\ rec = [shape |-> <<1, 1, 1>>, flat |-> <<0>>]
    /\ InitExperiment
    /\ code \in 0..(FullScale - 1)
    /\ decoded = None

Decode ==
    /\ decoded = None
    /\ decoded' = PhaseDecode(code)
    /\ UNCHANGED <<exp_vars, code>>

SpecDecode == InitDecode /\ [][Decode]_vars

(***************************************************************************)
(* Properties.                                                             *)
(***************************************************************************)
Loaded == pc = "idle" /\ data_loaded

FlowHeader == par.PhaseEncodingVelocity # <<0, 0, 0>>

AllZero(a) == \A k \in 1..Size(a) : a.flat[k] = 0

\* extent, along axis ax, of the non-zero voxels of a 4-D array
BoxLen(a, ax) ==
    LET nz == {i \in (0..(a.shape[1] - 1)) \X (0..(a.shape[2] - 1))
                      \X (0..(a.shape[3] - 1)) \X (0..(a.shape[4] - 1)) :
                  At4(a, i[1], i[2], i[3], i[4]) # 0}
        at == {i[ax] : i \in nz}
    IN IF nz = {} THEN 0 ELSE SetMax(at) - SetMin(at) + 1

\* C1: after a successful load the mode follows Flow > Multi-echo > Standard:
\* a non-zero encoding velocity gives 2 x dynamics frames and a Phase channel
\* (whatever the echo count); otherwise more than one echo gives echoes
\* frames; otherwise dynamics frames; in the last two modes SpinDensity is the
\* whole 4-D volume and there is no Phase.
ModeDispatch ==
    Loaded =>
        LET E == par.MaxNumberOfEchoes
            D == par.MaxNumberOfDynamics
        IN /\ Len(data.shape) = 4
           /\ IF FlowHeader
              THEN /\ data.shape[4] = 2 * D
                   /\ spin_density.shape[4] = D
                   /\ phase # None
              ELSE /\ data.shape[4] = (IF E > 1 THEN E ELSE D)
                   /\ spin_density = data
                   /\ phase = None

\* C1 witness: a flow-encoded load whose echo count would give another
\* frame count
ModeDispatchWitness ==
    /\ Loaded
    /\ FlowHeader
    /\ par.MaxNumberOfEchoes > 1
    /\ par.MaxNumberOfEchoes # 2 * par.MaxNumberOfDynamics

\* C2: after a flow-encoded load with D dynamics, SpinDensity is exactly the
\* even frames 0,2,...,2D-2 of the reshaped volume, in order, and Phase is
\* the decode of exactly the odd frames 1,3,...,2D-1, in order; both have D
\* frames.
FlowSplit ==
    (Loaded /\ FlowHeader) =>
        LET D  == par.MaxNumberOfDynamics
            sh == <<data.shape[1], data.shape[2], data.shape[3], D>>
        IN /\ data.shape[4] = 2 * D
           /\ spin_density.shape = sh
           /\ phase.shape = sh
           /\ \A r \in 0..(sh[1] - 1), c \in 0..(sh[2] - 1),
                 s \in 0..(sh[3] - 1), d \in 0..(D - 1) :
                 /\ At4(spin_density, r, c, s, d) = At4(data, r, c, s, 2 * d)
                 /\ At4(phase, r, c, s, d) = PhaseDecode(At4(data, r, c, s, 2 * d + 1))

\* C2 witness: a flow-encoded load of two dynamics whose frames differ
FlowSplitWitness ==
    /\ Loaded
    /\ FlowHeader
    /\ par.MaxNumberOfDynamics = 2
    /\ Cardinality({data.flat[k] : k \in 1..Size(data)}) = 3

\* C3 as stated: code c decodes to (c - 2048) / 2048 x pi; 2048 gives 0, 0
\* gives -pi, 4095 gives pi x 2047/2048; every decoded phase lies in (-pi, pi].
PhaseDecodeHalfOpenAbove ==
    decoded # None =>
        /\ decoded = Real(code - 2048, 2048, 1)
        /\ (code = 2048 => decoded = Float(0))
        /\ (code = 0 => decoded = Real(-1, 1, 1))
        /\ (code = 4095 => decoded = Real(2047, 2048, 1))
        /\ FLess(Real(-1, 1, 1), decoded)
        /\ ~FLess(np_pi, decoded)

\* C3 amended: code c decodes to (c - 2048) / 2048 x pi; 2048 gives 0, 0
\* gives -pi, 4095 gives pi x 2047/2048 (not pi); every decoded phase lies in
\* [-pi, pi).
PhaseDecodeHalfOpenBelow ==
    decoded # None =>
        /\ decoded = Real(code - 2048, 2048, 1)
        /\ (code = 2048 => decoded = Float(0))
        /\ (code = 0 => decoded = Real(-1, 1, 1))
        /\ (code = 4095 => decoded = Real(2047, 2048, 1))
        /\ ~FLess(decoded, Real(-1, 1, 1))
        /\ FLess(decoded, np_pi)

\* C3 witness: the top code has been decoded
PhaseDecodeWitness == decoded # None /\ code = 4095

VelocityComputed == result.op = "calculate_velocity" /\ result.err = NoError

VelocityValues ==
    VelocityComputed =>
        LET v == par.PhaseEncodingVelocity
            V == CHOOSE x \in 0..(Abs(v[1]) + Abs(v[2]) + Abs(v[3])) :
                     x * x = v[1] * v[1] + v[2] * v[2] + v[3] * v[3]
        IN /\ velocity.shape = phase.shape
           /\ \A k \in 1..Size(phase) :
                 /\ velocity.flat[k] = Real(phase.flat[k].n * V, phase.flat[k].d, 0)
                 /\ (phase.flat[k] = Float(0) => velocity.flat[k] = Float(0))
                 /\ VelocityOf(phase.flat[k], Float(2 * V))
                        = FMul(Float(2), velocity.flat[k])

VelocityLeavesInputs ==
    [][(pc = "idle" /\ result'.op = "calculate_velocity")
          => (phase' = phase /\ spin_density' = spin_density)]_vars

\* C4: calculate_velocity on a loaded flow-encoded acquisition sets
\* Velocity = Phase x V / pi element-wise, V the Euclidean norm of the
\* encoding velocity: same shape as Phase, phase 0 gives 0, doubling V
\* doubles every value; Phase and SpinDensity are left as they were.
VelocityLinear == []VelocityValues /\ VelocityLeavesInputs

\* C4 witness: a velocity volume with a zero and a non-zero value
VelocityLinearWitness ==
    /\ VelocityComputed
    /\ \E k \in 1..Size(velocity) : velocity.flat[k] = Float(0)
    /\ \E k \in 1..Size(velocity) : velocity.flat[k] # Float(0)

\* frame count the header's mode asks for
ExpectedFrames ==
    IF FlowHeader THEN 2 * par.MaxNumberOfDynamics
    ELSE IF par.MaxNumberOfEchoes > 1 THEN par.MaxNumberOfEchoes
    ELSE par.MaxNumberOfDynamics

ExpectedShape ==
    <<rec.shape[1], rec.shape[2], par.MaxNumberOfSlicesLocations, ExpectedFrames>>

LoadReturned == pc = "idle" /\ result.op = "load"

\* C5: a raw buffer of exactly R*C*S*F elements is reshaped without error to
\* (R,C,S,F); with any other length load fails with ShapeMismatchError and
\* the instance does not become loaded.
ShapeInvariant ==
    LoadReturned =>
        IF Size(rec) = Product(ExpectedShape)
        THEN /\ result.err # ShapeMismatchError
             /\ (data_loaded => data.shape = ExpectedShape)
        ELSE /\ result.err = ShapeMismatchError
             /\ ~data_loaded

\* C6: after a successful load SpinDensity is cropped to the tight bounding
\* box of the non-zero voxels over rows, columns and slices; the frame axis
\* is kept whole.
CropTight ==
    Loaded =>
        /\ \A ax \in 1..3 : spin_density.shape[ax] = BoxLen(data, ax)
        /\ spin_density.shape[4] = (IF FlowHeader THEN data.shape[4] \div 2
                                    ELSE data.shape[4])

\* C7: an all-zero raw buffer makes load fail with EmptyVolumeError at the
\* cropping step: load never gets past it, no empty array is stored, and
\* the instance does not become loaded.
EmptyVolumeFails ==
    AllZero(rec) =>
        /\ pc \in {"idle", "crop"}
        /\ ~data_loaded
        /\ spin_density = None
        /\ (LoadReturned => result.err = EmptyVolumeError)

\* C7 witness: load has returned on an all-zero buffer
EmptyVolumeWitness ==
    AllZero(rec) /\ LoadReturned /\ result.err = EmptyVolumeError

\* C8: after a flow-encoded load SpinDensity and Phase have the same length
\* on rows, columns and slices, both being cropped by the one bounding box
\* of the full pre-split volume.
SharedBoxAlignment ==
    (Loaded /\ FlowHeader) =>
        \A ax \in 1..3 :
            /\ spin_density.shape[ax] = phase.shape[ax]
            /\ phase.shape[ax] = BoxLen(data, ax)

VolumesPresent ==
    data_loaded =>
        /\ spin_density # None
        /\ (phase # None <=> FlowHeader)
        /\ (velocity # None => phase # None)

VelocityOnlyByResolver ==
    [][(velocity' # velocity) => (pc = "idle" /\ VelocityComputed')]_vars

\* C9: once a load has succeeded, SpinDensity is present, Phase is present
\* iff the acquisition is flow-encoded, and Velocity is present only if
\* Phase is and only a successful calculate_velocity sets it.
DecodedVolumesPresence == []VolumesPresent /\ VelocityOnlyByResolver

\* C9 witness: a loaded flow-encoded acquisition whose velocity is computed
DecodedVolumesWitness ==
    Loaded /\ FlowHeader /\ phase # None /\ velocity # None

\* C10: calculate_velocity on a loaded acquisition that is not flow-encoded
\* fails with PhaseUnavailableError, leaves Velocity absent and changes no
\* other field.
NonFlowVelocityFails ==
    [][(Loaded /\ ~FlowHeader /\ result'.op = "calculate_velocity")
          => /\ result'.err = PhaseUnavailableError
             /\ velocity' = None
             /\ UNCHANGED <<parameters, data, spin_density, phase, velocity,
                            data_loaded>>]_vars

\* C10 witness: the call has failed on a loaded standard acquisition
NonFlowVelocityWitness ==
    /\ Loaded
    /\ ~FlowHeader
    /\ result.op = "calculate_velocity"
    /\ result.err = PhaseUnavailableError

\* C11: on a loaded acquisition that is not flow-encoded get_phase and
\* get_velocity raise PhaseUnavailableError; on a loaded flow-encoded one
\* get_velocity raises VelocityUnavailableError until calculate_velocity has
\* run, and returns the velocity array afterwards; the two errors differ.
AccessorErrors ==
    Loaded =>
        /\ (~FlowHeader /\ result.op \in {"get_phase", "get_velocity"})
              => (result.err = PhaseUnavailableError /\ result.ret = None)
        /\ (FlowHeader /\ result.op = "get_velocity" /\ velocity = None)
              => (result.err = VelocityUnavailableError /\ result.ret = None)
        /\ (FlowHeader /\ result.op = "get_velocity" /\ velocity # None)
              => (result.err = NoError /\ result.ret = velocity)
        /\ PhaseUnavailableError # VelocityUnavailableError

\* C11 witness: get_velocity asked before calculate_velocity on a flow load
AccessorErrorsWitness ==
    /\ Loaded
    /\ FlowHeader
    /\ result.op = "get_velocity"
    /\ result.err = VelocityUnavailableError

MultiAxis == Cardinality({k \in 1..3 : par.PhaseEncodingVelocity[k] # 0}) > 1

\* C12: with more than one non-zero encoding-velocity component load fails
\* fast: the instance is never loaded, no Phase is split off and no
\* Velocity is ever computed.
MultiAxisRejected ==
    MultiAxis =>
        /\ ~data_loaded
        /\ phase = None
        /\ velocity = None
        /\ (LoadReturned => result.err # NoError)

\* C13: header, SpinDensity and Phase are assigned at most once, and
\* Velocity, once computed, is never assigned again.
WriteOnce ==
    [][/\ (parameters # None => parameters' = parameters)
       /\ (spin_density # None => spin_density' = spin_density)
       /\ (phase # None => phase' = phase)
       /\ (velocity # None => velocity' = velocity)]_vars

\* no all-zero border plane on any axis of a 3-D array
NoZeroBorder3(a) ==
    \A ax \in 1..3 :
        /\ \E i \in (0..(a.shape[1] - 1)) \X (0..(a.shape[2] - 1))
                      \X (0..(a.shape[3] - 1)) :
              i[ax] = 0 /\ At3(a, i[1], i[2], i[3]) # 0
        /\ \E i \in (0..(a.shape[1] - 1)) \X (0..(a.shape[2] - 1))
                      \X (0..(a.shape[3] - 1)) :
              i[ax] = a.shape[ax] - 1 /\ At3(a, i[1], i[2], i[3]) # 0

\* C14: the cropper returns a volume without zero border unchanged (shape
\* and values), and cropping its own output again changes nothing.
CropIdempotent ==
    pc = "resize" =>
        /\ (NoZeroBorder3(data) => spin_density = data)
        /\ CanBound(spin_density)
        /\ NoZeroBorder3(spin_density)
        /\ cropped_data(spin_density) = spin_density

\* C14 witness: the cropper has run on a volume of several voxels that has
\* no zero border
CropIdempotentWitness ==
    pc = "resize" /\ Size(data) > 1 /\ NoZeroBorder3(data) /\ ~AllZero(spin_density)

\* C15: inside load the bounding box is computed on the reshaped 4-D
\* volume (reshape, then crop, then split), and no step of load touches
\* Velocity.
LoadStepOrder ==
    [][/\ ((pc = "crop" /\ pc' = "resize") => Len(data.shape) = 4)
       /\ ((pc # "idle" \/ pc' # "idle") => velocity' = velocity)]_vars

GuardedOps ==
    {"describe", "display_parameters", "get_spin_density", "get_phase",
     "get_velocity", "calculate_velocity", "plot_proton_density", "plot_velocity"}

NotLoadedState ==
    /\ (pc = "finish" => (Len(data.shape) = 4 /\ ~AllZero(rec) /\ spin_density # None))
    /\ ((result.op = "load" /\ result.err \notin {NoError, Running}) => ~data_loaded)
    /\ ((~data_loaded /\ pc = "idle" /\ result.op \in GuardedOps)
           => (result.err = NotLoadedError /\ result.ret = None))

NotLoadedStep ==
    [][/\ ((~data_loaded /\ pc = "idle" /\ result'.op \in GuardedOps)
              => /\ result'.err = NotLoadedError
                 /\ result'.ret = None
                 /\ UNCHANGED <<parameters, data, spin_density, phase, velocity,
                                data_loaded>>)
       /\ (data_loaded' # data_loaded
              => /\ pc = "finish"
                 /\ data_loaded'
                 /\ result' = Outcome("load", NoError, None))]_vars

\* C16: while no load has succeeded data_loaded is False and every guarded
\* method raises 'Data not loaded', returns nothing and changes no field;
\* data_loaded becomes True only in the last step of load, after the crop
\* and the resize.
NotLoadedGuard == []NotLoadedState /\ NotLoadedStep

\* C16 witness: get_spin_density refused after a load that failed in the
\* resize step, although the crop is already stored
NotLoadedGuardWitness ==
    /\ ~data_loaded
    /\ spin_density # None
    /\ result.op = "get_spin_density"
    /\ result.err = NotLoadedError

====
